---- MODULE Spec2Model ----
(***************************************************************************)
(* Model of server_tracking/google/sender.py: the AnalyticsSender          *)
(* (transport selection and size limits) and get_send_function (delivery   *)
(* mode selection).                                                        *)
(*                                                                         *)
(* Strings are sequences of segments [src, from, to]: the characters       *)
(* from..to of the named source text.  Length, concatenation and slicing   *)
(* are computed on the segments, so a slice that is off by one character   *)
(* is a different string.                                                  *)
(***************************************************************************)
EXTENDS Integers, Sequences, FiniteSets, TLC

\* ---------------------------------------------------------------- bounds
MaxHooks == 2
MaxCalls == 2
MaxTime == 1

\* ------------------------------------------------------------- constants
GET_SIZE_LIMIT == 2000
POST_SIZE_LIMIT == 8192
SSL_URL_LEN == 32
HTTP_URL_LEN == 31
DEBUG_PATH_LEN == 6
COLLECT_PATH_LEN == 8
DefaultTimeout == 10

\* --------------------------------------------------------------- strings
Str(src, n) == IF n = 0 THEN <<>> ELSE <<[src |-> src, from |-> 1, to |-> n]>>

RECURSIVE StrLen(_)
StrLen(s) == IF s = <<>> THEN 0
             ELSE (Head(s).to - Head(s).from + 1) + StrLen(Tail(s))

\* Python's s[k:]
RECURSIVE Slice(_, _)
Slice(s, k) ==
    IF s = <<>> \/ k = 0 THEN s
    ELSE LET h == Head(s)
             l == h.to - h.from + 1
         IN  IF k >= l THEN Slice(Tail(s), k - l)
             ELSE <<[h EXCEPT !.from = h.from + k]>> \o Tail(s)

SSL_URL == Str("SSL_URL", SSL_URL_LEN)
HTTP_URL == Str("HTTP_URL", HTTP_URL_LEN)
DEBUG_PATH == Str("DEBUG_PATH", DEBUG_PATH_LEN)
COLLECT_PATH == Str("COLLECT_PATH", COLLECT_PATH_LEN)

\* ---------------------------------------------------------------- inputs
\* Hit parameters are identified by the length of their urlencoded form; 0 is
\* the empty mapping.  The lengths sit on both sides of each size limit, for
\* the plain and for the debug endpoint.
QLens == {0, 1985, 1986, 1991, 1992, 8192, 8193}
Params == [type : {"dict"}, enc : QLens]
\* The send function is called with one hit of each kind: fit for a GET, too
\* long for a GET, too long for a POST.
FuncQLens == {1985, 1992, 8193}
FuncParams == [type : {"dict"}, enc : FuncQLens]
Methods == {"GET", "POST"}
Timeouts == {DefaultTimeout}
\* What time.time() may read.
Times == 0..MaxTime
Defers == {"DEFER_METHOD_CELERY", "DEFER_METHOD_THREADED", "None"}
Kwargs == [ssl : BOOLEAN, debug : BOOLEAN, default_method : Methods,
           post_fallback : BOOLEAN, timeout : Timeouts]
\* What the HTTP client does with a request it is handed.
Outcomes == {"ok", "ConnectionError", "Timeout"}
TransportErrors == {"ConnectionError", "Timeout"}

\* requests' encoding of params= / data=: a mapping is urlencoded, a string is
\* taken as it is.
EncodeParams(data) == IF data.type = "str" THEN data.s ELSE Str("query", data.enc)

\* A request without a body has body None, and requests never makes an empty
\* body: None is written as the empty string.
NoBody == <<>>
Query(q) == IF q = <<>> THEN <<>> ELSE Str("?", 1) \o q
\* PreparedRequest of Request('GET', url, params=...)
PrepareGet(base_url, request_params) ==
    [method |-> "GET",
     url |-> base_url \o Query(EncodeParams(request_params)),
     body |-> NoBody]

\* PreparedRequest of Request('POST', url, data=...): no data, no body.
PreparePost(base_url, request_data) ==
    [method |-> "POST", url |-> base_url, body |-> EncodeParams(request_data)]

\* session.send(p_req, timeout=...): the call made, and what comes back: a
\* response that has gone through every registered response hook, or the
\* client's error.
NetCall(self, p_req) ==
    [timeout |-> self.timeout, session |-> self.session] @@ p_req

SessionSend(self, hooks, p_req, net) ==
    LET call == NetCall(self, p_req)
    IN  [calls |-> <<call>>,
         result |-> IF net = "ok"
                    THEN [kind |-> "Response", request |-> call,
                          passes |-> Len(SelectSeq(hooks,
                                      LAMBDA h : h = "process_debug_response"))]
                    ELSE [kind |-> net, request |-> call]]

SenderException(n) == [calls |-> <<>>, result |-> [kind |-> "SenderException", length |-> n]]
TypeError == [calls |-> <<>>, result |-> [kind |-> "TypeError"]]

\* ------------------------------------------------------- AnalyticsSender
AnalyticsSender(session, ssl, debug, default_method, post_fallback, timeout) ==
    LET root_url == IF ssl THEN SSL_URL ELSE HTTP_URL
        base_url == IF debug THEN root_url \o DEBUG_PATH \o COLLECT_PATH
                    ELSE root_url \o COLLECT_PATH
    IN  [debug |-> debug, ssl |-> TRUE, base_url |-> base_url,
         root_url_len |-> StrLen(root_url), base_url_len |-> StrLen(base_url),
         session |-> session, timeout |-> timeout,
         send |-> IF default_method = "GET" THEN "get" ELSE "post",
         post_fallback |-> post_fallback]

\* post with a fault C4 must detect: the size check rejects a body of exactly the limit.
PostRejectsAtLimit(self, hooks, request_data, net) ==
    LET p_req == PreparePost(self.base_url, request_data)
    IN  IF p_req.body = NoBody THEN TypeError
        ELSE IF StrLen(p_req.body) >= POST_SIZE_LIMIT
             THEN SenderException(StrLen(p_req.body))
             ELSE SessionSend(self, hooks, p_req, net)

post(self, hooks, request_data, net) ==
    LET p_req == PreparePost(self.base_url, request_data)
    IN  IF p_req.body = NoBody THEN TypeError
        ELSE IF StrLen(p_req.body) > POST_SIZE_LIMIT
             THEN SenderException(StrLen(p_req.body))
             ELSE SessionSend(self, hooks, p_req, net)

\* get with a fault C1 must detect: the fallback body keeps the "?" in front of the query.
GetSliceOffByOne(self, hooks, request_params, net) ==
    LET p_req == PrepareGet(self.base_url, request_params)
    IN  IF StrLen(p_req.url) - self.root_url_len > GET_SIZE_LIMIT
        THEN IF self.post_fallback
             THEN post(self, hooks,
                       [type |-> "str", s |-> Slice(p_req.url, self.base_url_len)],
                       net)
             ELSE SenderException(StrLen(p_req.url))
        ELSE SessionSend(self, hooks, p_req, net)

\* get with a fault C3 must detect: the fallback is taken whatever post_fallback says.
GetAlwaysFallback(self, hooks, request_params, net) ==
    LET p_req == PrepareGet(self.base_url, request_params)
    IN  IF StrLen(p_req.url) - self.root_url_len > GET_SIZE_LIMIT
        THEN post(self, hooks,
                  [type |-> "str", s |-> Slice(p_req.url, self.base_url_len + 1)],
                  net)
        ELSE SessionSend(self, hooks, p_req, net)

\* get with a fault C10 must detect: a GET the client failed is sent again as a POST.
GetRetriesAsPost(self, hooks, request_params, net) ==
    LET p_req == PrepareGet(self.base_url, request_params)
    IN  IF StrLen(p_req.url) - self.root_url_len > GET_SIZE_LIMIT
        THEN IF self.post_fallback
             THEN post(self, hooks,
                       [type |-> "str", s |-> Slice(p_req.url, self.base_url_len + 1)],
                       net)
             ELSE SenderException(StrLen(p_req.url))
        ELSE LET first == SessionSend(self, hooks, p_req, net)
                 again == post(self, hooks, request_params, net)
             IN  IF net = "ok" THEN first
                 ELSE [calls |-> first.calls \o again.calls, result |-> again.result]

get(self, hooks, request_params, net) ==
    LET p_req == PrepareGet(self.base_url, request_params)
    IN  IF StrLen(p_req.url) - self.root_url_len > GET_SIZE_LIMIT
        THEN IF self.post_fallback
             THEN post(self, hooks,
                       [type |-> "str", s |-> Slice(p_req.url, self.base_url_len + 1)],
                       net)
             ELSE SenderException(StrLen(p_req.url))
        ELSE SessionSend(self, hooks, p_req, net)

send(self, hooks, request_params, net) ==
    IF self.send = "get" THEN get(self, hooks, request_params, net)
    ELSE post(self, hooks, request_params, net)

\* ----------------------------------------------------------------- state
\* The Session objects the caller owns and hands to AnalyticsSender, and the
\* one get_send_function creates for itself.
Sessions == {"s1", "s2"}
OwnSession == "Session()"

VARIABLES
    sessions,   \* per Session object: its hooks['response'] list
    sender,     \* the AnalyticsSender the caller holds
    last,       \* the latest get/post/send call made on that sender
    func,       \* the send function get_send_function returned
    selected,   \* the latest get_send_function call and its outcome
    threads,    \* the threads started by the threaded send function
    queue,      \* the arguments given to send_hit.apply_async
    ncalls,     \* number of calls of the send function
    returned    \* what the latest call of the send function gave its caller

vars == <<sessions, sender, last, func, selected, threads, queue, ncalls, returned>>
modeVars == <<func, selected, threads, queue, ncalls, returned>>

NoSender == [send |-> "none"]
NoCall == [kind |-> "none"]
NoFunc == [mode |-> "none", sender |-> NoSender]
None == [kind |-> "None"]

Init ==
    /\ sessions = [s \in Sessions \cup {OwnSession} |-> <<>>]
    /\ sender = NoSender
    /\ last = NoCall
    /\ func = NoFunc
    /\ selected = NoCall
    /\ threads = <<>>
    /\ queue = <<>>
    /\ ncalls = 0
    /\ returned = NoCall

\* session.hooks['response'] after AnalyticsSender.__init__ ran on the session.
Registered(hooks, debug) ==
    IF debug THEN Append(hooks, "process_debug_response") ELSE hooks

\* AnalyticsSender(session, ...) on one of the caller's sessions.  The caller
\* keeps the new object, or goes on with the one it held (the session keeps
\* whatever the constructor registered on it either way).
NewAnalyticsSender ==
    /\ \E s \in Sessions, ssl \in BOOLEAN, debug \in BOOLEAN, m \in Methods,
          fb \in BOOLEAN, t \in Timeouts, keep \in BOOLEAN :
          /\ debug => Len(sessions[s]) < MaxHooks
          /\ keep => sender # NoSender
          /\ sessions' = [sessions EXCEPT ![s] = Registered(@, debug)]
          /\ sender' = IF keep THEN sender ELSE AnalyticsSender(s, ssl, debug, m, fb, t)
          /\ last' = IF keep THEN last ELSE NoCall
    /\ UNCHANGED modeVars

Invocation(op, p, r) == [kind |-> "call", op |-> op, params |-> p] @@ r

CallGet ==
    /\ sender # NoSender
    /\ \E p \in Params, net \in Outcomes :
          last' = Invocation("get", p, get(sender, sessions[sender.session], p, net))
    /\ UNCHANGED <<sessions, sender, modeVars>>

CallPost ==
    /\ sender # NoSender
    /\ \E p \in Params, net \in Outcomes :
          last' = Invocation("post", p, post(sender, sessions[sender.session], p, net))
    /\ UNCHANGED <<sessions, sender, modeVars>>

CallSend ==
    /\ sender # NoSender
    /\ \E p \in Params, net \in Outcomes :
          last' = Invocation(sender.send, p,
                             send(sender, sessions[sender.session], p, net))
    /\ UNCHANGED <<sessions, sender, modeVars>>

Next == NewAnalyticsSender \/ CallGet \/ CallPost \/ CallSend

Spec == Init /\ [][Next]_vars

\* ------------------------------------------------------ get_send_function
\* get_send_function with a fault C8 must detect: a failed import of the task module is
\* swallowed and the send function is returned all the same.
get_send_function_defers_error(defer, kwargs, importable, hooks) ==
    IF defer = "DEFER_METHOD_CELERY"
    THEN [outcome |-> "returned", hooks |-> hooks,
          func |-> [mode |-> "celery", sender |-> NoSender]]
    ELSE [outcome |-> "returned", hooks |-> Registered(hooks, kwargs.debug),
          func |-> [mode |-> IF defer = "DEFER_METHOD_THREADED"
                             THEN "threaded" ELSE "sync",
                    sender |-> AnalyticsSender(OwnSession, kwargs.ssl, kwargs.debug,
                                               kwargs.default_method,
                                               kwargs.post_fallback, kwargs.timeout)]]

\* What get_send_function(defer, **kwargs) gives: the function it returns (or
\* the error it raises) and the hooks of the Session() it created.
get_send_function(defer, kwargs, importable, hooks) ==
    IF defer = "DEFER_METHOD_CELERY"
    THEN IF importable
         THEN [outcome |-> "returned", hooks |-> hooks,
               func |-> [mode |-> "celery", sender |-> NoSender]]
         ELSE [outcome |-> "ValueError", hooks |-> hooks, func |-> NoFunc]
    ELSE [outcome |-> "returned", hooks |-> Registered(hooks, kwargs.debug),
          func |-> [mode |-> IF defer = "DEFER_METHOD_THREADED"
                             THEN "threaded" ELSE "sync",
                    sender |-> AnalyticsSender(OwnSession, kwargs.ssl, kwargs.debug,
                                               kwargs.default_method,
                                               kwargs.post_fallback, kwargs.timeout)]]

\* The caller configures its send function once.
SelectMode ==
    /\ func = NoFunc
    /\ \E defer \in Defers, kwargs \in Kwargs, importable \in BOOLEAN :
          LET r == get_send_function(defer, kwargs, importable, sessions[OwnSession])
          IN  /\ func' = r.func
              /\ selected' = [kind |-> "call", defer |-> defer,
                              importable |-> importable, outcome |-> r.outcome]
              /\ sessions' = [sessions EXCEPT ![OwnSession] = r.hooks]
    /\ UNCHANGED <<sender, last, threads, queue, ncalls, returned>>

\* What a call of the send function gave its caller: the value returned or
\* the error raised, and the network calls made before it came back.
Returned(p, r) == [kind |-> "call", params |-> p] @@ r
\* the send function came back without a value and without a network call
Nothing == [calls |-> <<>>, result |-> None]

\* _send_func of the Celery branch: send_hit.apply_async(args=(params, time.time()))
CelerySendFunc(request_params) ==
    /\ \E time \in Times : queue' = Append(queue, <<request_params, time>>)
    /\ returned' = Returned(request_params, Nothing)
    /\ UNCHANGED threads

\* ThreadedSendFunc with a fault C7 must detect: send runs in the calling thread and its result
\* goes back to the caller.
ThreadedSendFuncInline(request_params) ==
    /\ \E net \in Outcomes :
          LET r == send(func.sender, sessions[func.sender.session], request_params, net)
          IN  /\ threads' = Append(threads, [params |-> request_params, state |-> "done",
                                            calls |-> r.calls, result |-> r.result])
              /\ returned' = Returned(request_params, r)
    /\ UNCHANGED queue

\* ThreadedSendFunc with a fault C6 must detect: an oversized hit is dropped without a thread.
ThreadedSendFuncDrops(request_params) ==
    /\ threads' = IF request_params.enc > POST_SIZE_LIMIT THEN threads
                  ELSE Append(threads, [params |-> request_params, state |-> "started",
                                        calls |-> <<>>, result |-> NoCall])
    /\ returned' = Returned(request_params, Nothing)
    /\ UNCHANGED queue

\* _send_func of the threaded branch: Thread(target=sender.send, args=...).start()
ThreadedSendFunc(request_params) ==
    /\ threads' = Append(threads, [params |-> request_params, state |-> "started",
                                   calls |-> <<>>, result |-> NoCall])
    /\ returned' = Returned(request_params, Nothing)
    /\ UNCHANGED queue

\* The synchronous branch returns sender.send itself.
SyncSendFunc(request_params) ==
    /\ \E net \in Outcomes :
          returned' = Returned(request_params,
                               send(func.sender, sessions[func.sender.session],
                                    request_params, net))
    /\ UNCHANGED <<threads, queue>>

CallCelery ==
    /\ func.mode = "celery" /\ ncalls < MaxCalls
    /\ \E p \in FuncParams : CelerySendFunc(p)
    /\ ncalls' = ncalls + 1
    /\ UNCHANGED <<sessions, sender, last, func, selected>>

CallThreaded ==
    /\ func.mode = "threaded" /\ ncalls < MaxCalls
    /\ \E p \in FuncParams : ThreadedSendFunc(p)
    /\ ncalls' = ncalls + 1
    /\ UNCHANGED <<sessions, sender, last, func, selected>>

CallSync ==
    /\ func.mode = "sync" /\ ncalls < MaxCalls
    /\ \E p \in FuncParams : SyncSendFunc(p)
    /\ ncalls' = ncalls + 1
    /\ UNCHANGED <<sessions, sender, last, func, selected>>

\* The body of a started thread: sender.send(request_params), its result
\* (or uncaught error) staying in the thread.
ThreadRun(t) ==
    /\ t \in DOMAIN threads
    /\ threads[t].state = "started"
    /\ \E net \in Outcomes :
          threads' = [threads EXCEPT ![t] =
                         [params |-> @.params, state |-> "done"]
                             @@ send(func.sender, sessions[func.sender.session],
                                     @.params, net)]
    /\ UNCHANGED <<sessions, sender, last, func, selected, queue, ncalls, returned>>

RunThread == \E t \in 1..MaxCalls : ThreadRun(t)

FuncNext == SelectMode \/ CallCelery \/ CallThreaded \/ CallSync \/ RunThread

\* Every started thread gets to run.
FuncSpec == Init /\ [][FuncNext]_vars /\ \A t \in 1..MaxCalls : WF_vars(ThreadRun(t))

\* ------------------------------------------------ properties: the sender
\* The length get compares with the GET limit: the prepared URL without its
\* root-URL prefix.
ComputedLen == StrLen(PrepareGet(sender.base_url, last.params).url) - sender.root_url_len
EncodedLen == StrLen(EncodeParams(last.params))
LastGet == last.kind = "call" /\ last.op = "get"
OverGetLimit == LastGet /\ ComputedLen > GET_SIZE_LIMIT
\* post ran: called directly, or reached through the fallback of get
ReachedPost ==
    /\ last.kind = "call"
    /\ last.op = "post" \/ (OverGetLimit /\ sender.post_fallback)
OnePostOfParams ==
    /\ Len(last.calls) = 1
    /\ last.calls[1].method = "POST"
    /\ last.calls[1].url = sender.base_url
    /\ last.calls[1].body = EncodeParams(last.params)

\* C1 as stated: with post_fallback, a get over the GET limit issues exactly
\* one POST whose body is the encoded params, no GET, and returns that POST's
\* response; it does not fail.
C1_AlwaysReturnsPostResponse ==
    (OverGetLimit /\ sender.post_fallback)
        => /\ OnePostOfParams
           /\ last.result.kind = "Response"
           /\ last.result.request = last.calls[1]

\* C1 amended: with post_fallback, a get over the GET limit whose encoded
\* params do not exceed the POST limit issues exactly one POST whose body is
\* the encoded params and no GET, and ends as that POST ends: with its
\* response, or with the HTTP client's error for it.
C1_FallbackPostsOnce ==
    (OverGetLimit /\ sender.post_fallback /\ EncodedLen <= POST_SIZE_LIMIT)
        => /\ OnePostOfParams
           /\ last.result.kind \in {"Response"} \cup TransportErrors
           /\ last.result.request = last.calls[1]

C1_Witness ==
    /\ OverGetLimit /\ sender.post_fallback /\ EncodedLen <= POST_SIZE_LIMIT
    /\ last.result.kind = "Response"

\* C2: a get whose computed length is at most the GET limit issues exactly
\* one GET and no POST whatever post_fallback is, and a sender with
\* debug=False returns that call's response unmodified (it has not gone
\* through the debug processor).
C2_WithinLimitGetsOnce ==
    (LastGet /\ ComputedLen <= GET_SIZE_LIMIT)
        => /\ Len(last.calls) = 1
           /\ last.calls[1].method = "GET"
           /\ (~sender.debug /\ last.result.kind = "Response")
                  => /\ last.result.request = last.calls[1]
                     /\ last.result.passes = 0

\* C3: without post_fallback, a get over the GET limit fails with
\* SenderException and makes no network call.
C3_NoFallbackFails ==
    (OverGetLimit /\ ~sender.post_fallback)
        => /\ last.calls = <<>>
           /\ last.result.kind = "SenderException"

C3_Witness ==
    /\ OverGetLimit /\ ~sender.post_fallback
    /\ last.result.kind = "SenderException"

\* C4: post fails with SenderException and makes no network call when the
\* encoded body is longer than the POST limit, called directly or reached
\* through the fallback of get; a body of exactly the limit is sent.
C4_PostLimit ==
    ReachedPost
        => /\ EncodedLen > POST_SIZE_LIMIT
                => last.calls = <<>> /\ last.result.kind = "SenderException"
           /\ EncodedLen = POST_SIZE_LIMIT
                => /\ Len(last.calls) = 1
                   /\ last.calls[1].method = "POST"
                   /\ StrLen(last.calls[1].body) = POST_SIZE_LIMIT

C4_Witness ==
    /\ OverGetLimit /\ sender.post_fallback
    /\ EncodedLen > POST_SIZE_LIMIT
    /\ last.result.kind = "SenderException"

\* C5 as stated: a response returned by a sender with debug=True has gone
\* through the debug processor exactly once, one returned by a sender with
\* debug=False never, also when several senders share a session.
C5_DebugProcessedOnce ==
    (last.kind = "call" /\ last.result.kind = "Response")
        => last.result.passes = IF sender.debug THEN 1 ELSE 0

\* C9 as stated: a SenderException carries the length that was compared with
\* the limit: from get (no fallback) the prepared URL length minus the root
\* URL length, from post the body length; the value exceeds that limit.
C9_CarriesComparedLength ==
    (last.kind = "call" /\ last.result.kind = "SenderException")
        => IF ReachedPost
           THEN /\ last.result.length = EncodedLen
                /\ last.result.length > POST_SIZE_LIMIT
           ELSE /\ last.result.length = ComputedLen
                /\ last.result.length > GET_SIZE_LIMIT

\* the invocation whose network call the HTTP client failed
C10_FailedCallIsFinal ==
    (last.kind = "call" /\ last.result.kind \in TransportErrors)
        => /\ Len(last.calls) = 1
           /\ last.result = [kind |-> last.result.kind, request |-> last.calls[1]]
           /\ last.calls[1].method = IF ReachedPost THEN "POST" ELSE "GET"
\* a step that makes a call on the sender
C10_CallLeavesSender ==
    (last' # last /\ last'.kind = "call") => (sender' = sender /\ sessions' = sessions)

\* C10: a call the HTTP client fails is the only network call of its
\* invocation (a failed GET is not sent again as a POST), the client's error
\* for that call is what the caller gets, and the sender and its session are
\* as they were before the call.
C10_NoRetry == []C10_FailedCallIsFinal /\ [][C10_CallLeavesSender]_vars

C10_Witness ==
    /\ LastGet /\ ComputedLen <= GET_SIZE_LIMIT
    /\ last.result.kind = "Timeout"

\* ----------------------------------------------- properties: the function
Started(t) == t \in DOMAIN threads /\ threads[t].state = "started"
Done(t) == t \in DOMAIN threads /\ threads[t].state = "done"
AllDone == \A t \in DOMAIN threads : Done(t)

RECURSIVE Attempts(_)
\* network calls made by the first n threads
Attempts(n) == IF n = 0 THEN 0 ELSE Len(threads[n].calls) + Attempts(n - 1)

\* C6 as stated: once the threads of N calls of the threaded send function
\* have run, exactly N network attempts have been made.
C6_OneAttemptPerCall ==
    (func.mode = "threaded" /\ AllDone) => Attempts(Len(threads)) = ncalls

\* one thread per call, started and not waited for; a finished thread has
\* made one network call, or none when its send failed before the HTTP client
C6_Spawned ==
    func.mode = "threaded"
        => /\ Len(threads) = ncalls
           /\ \A t \in DOMAIN threads :
                 /\ Started(t) => threads[t].calls = <<>>
                 /\ Done(t) =>
                       Len(threads[t].calls) =
                           IF threads[t].result.kind \in {"SenderException", "TypeError"}
                           THEN 0 ELSE 1
           /\ returned.kind = "call"
                 => /\ returned.calls = <<>>
                    /\ threads[Len(threads)].params = returned.params
\* no thread stays started for ever (and a started thread can only become done)
C6_ThreadsFinish == \A t \in 1..MaxCalls : []<>(~Started(t))

\* C6 amended: N calls of the threaded send function start N threads, none of
\* which the call waits for; every started thread runs send once and
\* finishes, in any order, having made exactly one network attempt unless
\* its send failed before reaching the HTTP client (SenderException for an
\* oversized hit, TypeError for an empty POST), and then none.
C6_OneThreadPerCall == []C6_Spawned /\ C6_ThreadsFinish

\* the second call has come back and its thread has finished while the
\* thread of the first call has not run yet
C6_Witness ==
    /\ func.mode = "threaded" /\ ncalls = 2
    /\ Started(1) /\ Done(2)
    /\ Len(threads[2].calls) = 1

\* C7: the threaded send function returns None whatever becomes of the send
\* in its thread (response, SenderException, transport error or timeout) and
\* raises nothing; the synchronous one gives its caller the response or the
\* error of sender.send.
C7_OutcomeVisibility ==
    returned.kind = "call"
        => /\ func.mode = "threaded" => returned.result = None
           /\ func.mode = "sync"
                 => /\ returned.result.kind \in
                          {"Response", "SenderException", "TypeError"} \cup TransportErrors
                    /\ returned.result.kind \in {"Response"} \cup TransportErrors
                          => /\ Len(returned.calls) = 1
                             /\ returned.result.request = returned.calls[1]
                    /\ returned.result.kind \in {"SenderException", "TypeError"}
                          => returned.calls = <<>>

C7_Witness ==
    /\ func.mode = "threaded"
    /\ returned.kind = "call" /\ returned.result = None
    /\ \E t \in DOMAIN threads :
          Done(t) /\ threads[t].result.kind = "SenderException"
    /\ \E t \in DOMAIN threads :
          Done(t) /\ threads[t].result.kind = "Timeout"

\* C8: asked for the Celery mode, get_send_function fails with ValueError
\* when the task module cannot be imported and returns no function, so no
\* send ever meets the error; when it can, no AnalyticsSender is made (no
\* session gets a hook, no thread starts) and every call of the function
\* puts exactly one (params, time.time() reading) on the queue and makes no
\* network call.
C8_CeleryMode ==
    /\ (selected.kind = "call" /\ selected.defer = "DEFER_METHOD_CELERY"
            /\ ~selected.importable)
          => /\ selected.outcome = "ValueError"
             /\ func = NoFunc
    /\ func = NoFunc => (ncalls = 0 /\ queue = <<>> /\ returned = NoCall)
    /\ func.mode = "celery"
          => /\ selected.importable
             /\ selected.outcome = "returned"
             /\ func.sender = NoSender
             /\ sessions[OwnSession] = <<>>
             /\ threads = <<>>
             /\ Len(queue) = ncalls
             /\ returned.kind = "call"
                   => /\ queue[Len(queue)][1] = returned.params
                      /\ queue[Len(queue)][2] \in Times
                      /\ returned.result = None
                      /\ returned.calls = <<>>

C8_Witness ==
    /\ func.mode = "celery"
    /\ Len(queue) = 2
    /\ queue[2][2] > queue[1][2]
====
